---- MODULE Spec2Model ----
(***************************************************************************)
(* Fixed-window rate limiter with counters persisted in the shared         *)
(* RateLimitRecord table (src/lib/rate-limiter/index.ts), the handlers     *)
(* that call it and the issue and authentication services behind them.     *)
(*                                                                         *)
(* Spec          one named limiter in one server process, every call       *)
(*               running to completion before the next starts;             *)
(* SpecNamed     the same with two differently named limiters on the one   *)
(*               table;                                                    *)
(* SpecReplicas  the same with one named limiter in each of two server     *)
(*               processes, which may restart;                             *)
(* SpecConc      request contexts whose consume calls interleave at every  *)
(*               await of the method;                                      *)
(* SpecHttp      requests to a handler and to a route, whose try block     *)
(*               awaits consume first, on a store that may fail;           *)
(* SpecFactory   the calls of RateLimiterFactory in one process;           *)
(* SpecIssues    the calls of IssueService (src/lib/services);             *)
(* SpecAuth      the calls of AuthService on the User table.               *)
(***************************************************************************)
EXTENDS Integers, Sequences, FiniteSets, TLC

\* ------------------------------------------------------------------ bounds
MaxReq == 2          \* maxRequests of the smaller limiter
TickMs == 500        \* milliseconds the clock advances in one Tick
MaxTicks == 3        \* the clock stops after MaxTicks ticks
NumProcs == 3        \* concurrently executing request contexts (SpecConc)
MaxIssues == 2       \* issues created in a run (SpecIssues)
MaxElapses == 1      \* times the clock is moved on by ElapseMs (SpecAuth)

Names == {"a", "b"}
Replicas == {1, 2}   \* server processes, each with its own RateLimiter objects
Procs == 1..NumProcs
Identifiers == {"forgot-password:ip1", "login:ip1"}
MaxTime == MaxTicks * TickMs
Times == {n * TickMs : n \in 0..MaxTicks}

\* createCustomLimiter(name, config): the configuration each name is
\* registered with; a RateLimiter object holds nothing but this.
Config ==
  [a |-> [maxRequests |-> MaxReq, windowMs |-> 2 * TickMs],
   b |-> [maxRequests |-> MaxReq + 1, windowMs |-> 3 * TickMs]]

\* ------------------------------------------------------------ pure helpers
Max(x, y) == IF x >= y THEN x ELSE y

\* Math.floor in the place of Math.ceil
FloorSeconds(ms) == ms \div 1000

\* Math.ceil(ms / 1000)
CeilSeconds(ms) == IF ms % 1000 = 0 THEN ms \div 1000 ELSE (ms \div 1000) + 1

generateKey(identifier) == "rate_limit:" \o identifier

Keys == {generateKey(i) : i \in Identifiers}

\* findUnique returns null when no row has the key
NoRecord == [present |-> FALSE, count |-> 0, expiresAt |-> 0]
Row(c, e) == [present |-> TRUE, count |-> c, expiresAt |-> e]

\* Date.now() + this.windowMs
calculateResetTime(cfg, t) == t + cfg.windowMs

\* prisma.rateLimitRecord.findUnique({ where: { key } })
findUnique(s, key) == s[key]

\* an upsert whose update clause is empty: an existing row is kept as it is
upsertCreateOnly(s, key, e) == IF s[key].present THEN s ELSE [s EXCEPT ![key] = Row(1, e)]

\* prisma.rateLimitRecord.upsert: count 1, expiresAt the new reset time
upsert(s, key, e) == [s EXCEPT ![key] = Row(1, e)]

\* prisma.rateLimitRecord.update({ data: { count: { increment: 1 } } })
increment(s, key) == [s EXCEPT ![key].count = @ + 1]

\* a deleteMany without its where clause
deleteAll(s, key) == [k \in DOMAIN s |-> NoRecord]

\* deleteMany({ where: { key } })
deleteKey(s, key) == [s EXCEPT ![key] = NoRecord]

\* the sweep with lte: it also deletes the rows that expire in this very ms,
\* which consume still counts as live
deleteExpiredInclusive(s, t) ==
  [k \in DOMAIN s |-> IF s[k].present /\ s[k].expiresAt <= t THEN NoRecord ELSE s[k]]

\* deleteMany({ where: { expiresAt: { lt: new Date() } } })
deleteExpired(s, t) ==
  [k \in DOMAIN s |-> IF s[k].present /\ s[k].expiresAt < t THEN NoRecord ELSE s[k]]

\* cleanupExpired: the sweep, or nothing when the store call failed and the
\* failure was swallowed
cleanupExpired(s, t, sweepOk) == IF sweepOk THEN deleteExpired(s, t) ELSE s

\* the same test with <= : a row is dropped in the very ms it expires
ExpiredInclusive(record, t) == ~record.present \/ record.expiresAt <= t

\* record missing or record.expiresAt < now
Expired(record, t) == ~record.present \/ record.expiresAt < t
Live(record, t) == record.present /\ record.expiresAt >= t

Info(cfg, remaining, resetMs) ==
  [status |-> "ok", limit |-> cfg.maxRequests, remaining |-> remaining,
   reset |-> CeilSeconds(resetMs), retryAfter |-> 0]

Limited(retryAfter) ==
  [status |-> "limited", limit |-> 0, remaining |-> 0, reset |-> 0,
   retryAfter |-> retryAfter]

\* the limit test with > : one request too many is let through
ExhaustedOffByOne(cfg, record) == record.count > cfg.maxRequests

\* record.count >= this.maxRequests
Exhausted(cfg, record) == record.count >= cfg.maxRequests

\* a rejection that counts the rejected request as well
rejectCounted(s, key) == [s EXCEPT ![key].count = @ + 1]

\* the throw of RateLimitError comes before any write: the table is left as
\* the lookup found it
reject(s, key) == s

\* a check that materializes the window it reports
checkCreatesRow(cfg, s, id, t, sweepOk) ==
  LET key == generateKey(id)
      s1 == cleanupExpired(s, t, sweepOk)
      record == findUnique(s1, key)
  IN IF Expired(record, t)
       THEN [store |-> upsert(s1, key, calculateResetTime(cfg, t)),
             result |-> Info(cfg, cfg.maxRequests, calculateResetTime(cfg, t))]
       ELSE [store |-> s1,
             result |-> Info(cfg, Max(0, cfg.maxRequests - record.count),
                             record.expiresAt)]

\* check(identifier) on the table s at time t: the table it leaves and the
\* info it returns
check(cfg, s, id, t, sweepOk) ==
  LET key == generateKey(id)
      s1 == cleanupExpired(s, t, sweepOk)
      record == findUnique(s1, key)
  IN [store |-> s1,
      result |-> IF Expired(record, t)
                   THEN Info(cfg, cfg.maxRequests, calculateResetTime(cfg, t))
                   ELSE Info(cfg, Max(0, cfg.maxRequests - record.count),
                             record.expiresAt)]

\* a consume that leaves expiry to the sweep: it starts a new window only
\* when the lookup finds no row
consumeTrustsSweep(cfg, s, id, t, sweepOk) ==
  LET key == generateKey(id)
      s1 == cleanupExpired(s, t, sweepOk)
      record == findUnique(s1, key)
      created == upsert(s1, key, calculateResetTime(cfg, t))
      updated == increment(s1, key)
      Return(s2) == [store |-> s2,
                     result |-> Info(cfg, Max(0, cfg.maxRequests - s2[key].count),
                                     s2[key].expiresAt)]
  IN IF ~record.present THEN Return(created)
     ELSE IF Exhausted(cfg, record)
       THEN [store |-> reject(s1, key),
             result |-> Limited(CeilSeconds(record.expiresAt - t))]
     ELSE Return(updated)

\* consume(identifier) on the table s at time t, run without interruption:
\* the table it leaves and the info it returns or the RateLimitError it throws
consume(cfg, s, id, t, sweepOk) ==
  LET key == generateKey(id)
      s1 == cleanupExpired(s, t, sweepOk)
      record == findUnique(s1, key)
      created == upsert(s1, key, calculateResetTime(cfg, t))
      updated == increment(s1, key)
      Return(s2) == [store |-> s2,
                     result |-> Info(cfg, Max(0, cfg.maxRequests - s2[key].count),
                                     s2[key].expiresAt)]
  IN IF Expired(record, t) THEN Return(created)
     ELSE IF Exhausted(cfg, record)
       THEN [store |-> reject(s1, key),
             result |-> Limited(CeilSeconds(record.expiresAt - t))]
     ELSE Return(updated)

\* a reset that deletes nothing
resetNothing(s, id) == s

\* reset(identifier)
reset(s, id) == deleteKey(s, generateKey(id))

\* ---------------------------------------------- consume on a failing store
\* the store call of consume that fails, if any: the lookup (findUnique) or
\* the write (upsert or update)
Faults == {"none", "lookup", "write"}

\* consume ends by an exception that is not a RateLimitError
Failure ==
  [status |-> "error", limit |-> 0, remaining |-> 0, reset |-> 0, retryAfter |-> 0]

\* the fault that a call runs into: a call that rejects makes no write
Occurred(cfg, s, id, t, sweepOk, fault) ==
  IF fault = "write" /\ consume(cfg, s, id, t, sweepOk).result.status = "limited"
    THEN "none" ELSE fault

\* a limiter that fails open: a consume whose store call failed lets the
\* request through
consumeFailOpen(cfg, s, id, t, sweepOk, fault) ==
  IF Occurred(cfg, s, id, t, sweepOk, fault) = "none"
    THEN consume(cfg, s, id, t, sweepOk)
    ELSE [store |-> cleanupExpired(s, t, sweepOk),
          result |-> Info(cfg, cfg.maxRequests, calculateResetTime(cfg, t))]

\* consume with the store failing at fault: findUnique, upsert and update are
\* awaited outside any try block, so the exception leaves consume, with
\* nothing written after the sweep
consumeIO(cfg, s, id, t, sweepOk, fault) ==
  IF Occurred(cfg, s, id, t, sweepOk, fault) = "none"
    THEN consume(cfg, s, id, t, sweepOk)
    ELSE [store |-> cleanupExpired(s, t, sweepOk), result |-> Failure]

\* --------------------------------------------------------- request handlers
\* AuthHandler.login and the route POST /api/auth/forgot-password
Endpoints == {"login", "forgot-password"}
ClientIP == "ip1"

\* `login:${clientIP}`, `forgot-password:${clientIP}`
IdentifierOf(e) == e \o ":" \o ClientIP

\* what follows consume in the try block: the request is processed, its body
\* is rejected by validation, or the service throws AuthenticationError
Operations == {"done", "invalid", "denied"}

NoRetryAfter == -1
NoHeaders == [limit |-> 0, remaining |-> 0, reset |-> 0]
NoError == [class |-> "", statusCode |-> 0, retryAfter |-> NoRetryAfter]
RateLimitError(retryAfter) ==
  [class |-> "RateLimitError", statusCode |-> 429, retryAfter |-> retryAfter]
ValidationError ==
  [class |-> "ValidationError", statusCode |-> 400, retryAfter |-> NoRetryAfter]
AuthenticationError ==
  [class |-> "AuthenticationError", statusCode |-> 401, retryAfter |-> NoRetryAfter]
StoreError == [class |-> "Error", statusCode |-> 0, retryAfter |-> NoRetryAfter]
BaseErrors == {"RateLimitError", "ValidationError", "AuthenticationError"}

\* what the try block throws, given the outcome of consume and of the rest
Thrown(result, op) ==
  IF result.status = "limited" THEN RateLimitError(result.retryAfter)
  ELSE IF result.status = "error" THEN StoreError
  ELSE IF op = "invalid" THEN ValidationError
  ELSE IF op = "denied" THEN AuthenticationError
  ELSE NoError

\* ErrorHandler.handle: status and body (toJSON) of a BaseError, of which
\* RateLimitError adds retryAfter; anything else is an InternalServerError
ErrorHandlerHandle(error) ==
  IF error.class \in BaseErrors
    THEN [status |-> error.statusCode, retryAfter |-> error.retryAfter]
    ELSE [status |-> 500, retryAfter |-> NoRetryAfter]

\* the catch block of the route: a fixed body for each class it tests for
RouteCatch(error) ==
  IF error.class = "RateLimitError" THEN [status |-> 429, retryAfter |-> NoRetryAfter]
  ELSE IF error.class = "ValidationError" THEN [status |-> 400, retryAfter |-> NoRetryAfter]
  ELSE [status |-> 500, retryAfter |-> NoRetryAfter]

Catch(e, error) ==
  IF e = "login" THEN ErrorHandlerHandle(error) ELSE RouteCatch(error)

NoResponse ==
  [endpoint |-> "", status |-> 0, retryAfter |-> NoRetryAfter, ran |-> FALSE,
   headers |-> NoHeaders, fault |-> "none"]

\* a handler that awaits the service before consume: the service has been
\* called whenever the body was valid, whatever the limiter then says
RespondServiceFirst(e, result, op, fault) ==
  LET error == Thrown(result, op) IN
  IF error = NoError
    THEN [endpoint |-> e, status |-> 200, retryAfter |-> NoRetryAfter, ran |-> TRUE,
          headers |-> [limit |-> result.limit, remaining |-> result.remaining,
                       reset |-> result.reset],
          fault |-> fault]
    ELSE [endpoint |-> e, status |-> Catch(e, error).status,
          retryAfter |-> Catch(e, error).retryAfter,
          ran |-> (op \in {"done", "denied"}),
          headers |-> NoHeaders, fault |-> fault]

\* the response of endpoint e: 200 with the X-RateLimit-* headers when
\* nothing was thrown, otherwise what the catch block makes of the error;
\* ran: the service was called
Respond(e, result, op, fault) ==
  LET error == Thrown(result, op) IN
  IF error = NoError
    THEN [endpoint |-> e, status |-> 200, retryAfter |-> NoRetryAfter, ran |-> TRUE,
          headers |-> [limit |-> result.limit, remaining |-> result.remaining,
                       reset |-> result.reset],
          fault |-> fault]
    ELSE [endpoint |-> e, status |-> Catch(e, error).status,
          retryAfter |-> Catch(e, error).retryAfter,
          ran |-> (error = AuthenticationError),
          headers |-> NoHeaders, fault |-> fault]

\* ------------------------------------------------------ RateLimiterFactory
FactoryNames == {"default", "auth", "strict", "custom"}
Getters == {"getDefaultLimiter", "getAuthLimiter", "getStrictLimiter"}

\* the configurations the three getters construct their limiter with
BuiltIn ==
  [default |-> [maxRequests |-> 100, windowMs |-> 15 * 60 * 1000],
   auth |-> [maxRequests |-> 20, windowMs |-> 15 * 60 * 1000],
   strict |-> [maxRequests |-> 10, windowMs |-> 60 * 1000]]

\* configurations a caller passes to createCustomLimiter
CustomConfigs == {[maxRequests |-> 5, windowMs |-> 1000]}

\* the limits the README and the technical documentation state
Readme ==
  [default |-> [maxRequests |-> 100, windowMs |-> 15 * 60 * 1000],
   auth |-> [maxRequests |-> 50, windowMs |-> 15 * 60 * 1000],
   strict |-> [maxRequests |-> 10, windowMs |-> 15 * 60 * 1000]]

\* a RateLimiter object: its identity and the two fields it holds
NoObject == [oid |-> 0, maxRequests |-> 0, windowMs |-> 0]
NewRateLimiter(cfg, oid) ==
  [oid |-> oid, maxRequests |-> cfg.maxRequests, windowMs |-> cfg.windowMs]
ConfigOf(object) ==
  [maxRequests |-> object.maxRequests, windowMs |-> object.windowMs]

NoFactory ==
  [instances |-> [n \in FactoryNames |-> NoObject], made |-> 0,
   by |-> "", name |-> "", got |-> NoObject]

\* this.instances.has(key)
has(f, key) == f.instances[key] # NoObject

\* a factory that constructs a limiter at every call and registers it in
\* place of the one it had
getOrCreateAlways(f, key, cfg, by) ==
  LET instances == [f.instances EXCEPT ![key] = NewRateLimiter(cfg, f.made + 1)]
  IN [instances |-> instances, made |-> f.made + 1,
      by |-> by, name |-> key, got |-> instances[key]]

\* if (!instances.has(key)) instances.set(key, new RateLimiter(cfg));
\* return instances.get(key)
getOrCreate(f, key, cfg, by) ==
  LET instances == IF has(f, key) THEN f.instances
                   ELSE [f.instances EXCEPT ![key] = NewRateLimiter(cfg, f.made + 1)]
  IN [instances |-> instances,
      made |-> IF has(f, key) THEN f.made ELSE f.made + 1,
      by |-> by, name |-> key, got |-> instances[key]]

getDefaultLimiter(f) == getOrCreate(f, "default", BuiltIn.default, "getDefaultLimiter")
getAuthLimiter(f) == getOrCreate(f, "auth", BuiltIn.auth, "getAuthLimiter")
getStrictLimiter(f) == getOrCreate(f, "strict", BuiltIn.strict, "getStrictLimiter")
createCustomLimiter(f, name, cfg) == getOrCreate(f, name, cfg, "createCustomLimiter")

\* ---------------------------------------------- IssueService and repository
Users == {"u", "v"}                \* the registered users
Callers == Users \cup {"nobody"}   \* user ids a call may carry
Texts == {"stored xss", "sql injection"}   \* title and description of an issue
Statuses == {"OPEN", "CLOSED"}
IssueIds == 1..MaxIssues

NoIssue == [present |-> FALSE, userId |-> "", text |-> "", status |-> ""]
NoIssues == [rows |-> [i \in IssueIds |-> NoIssue], next |-> 1]
NoAnswer == [op |-> "none", userId |-> "", issueId |-> 0, result |-> "ok",
             data |-> <<>>, total |-> 0]

\* the IIssue a query returns for row i
IssueOf(t, i) ==
  [id |-> i, userId |-> t.rows[i].userId, text |-> t.rows[i].text,
   status |-> t.rows[i].status]

\* a lookup by id alone
findByIdOfAnyUser(t, id, userId) ==
  IF t.rows[id].present THEN <<IssueOf(t, id)>> ELSE <<>>

\* prisma.issue.findFirst({ where: { id, userId } }): the issue or null (<<>>)
findByIdAndUser(t, id, userId) ==
  IF t.rows[id].present /\ t.rows[id].userId = userId
    THEN <<IssueOf(t, id)>> ELSE <<>>

\* orderBy createdAt desc: ids are given out in the order of creation
RECURSIVE Newest(_)
Newest(ids) ==
  IF ids = {} THEN <<>>
  ELSE LET i == CHOOSE m \in ids : \A n \in ids : m >= n
       IN <<i>> \o Newest(ids \ {i})

\* findAllByUser: where { userId, status?, OR: title/description contain
\* search }, skip (page - 1) * limit, take limit
findAllByUser(t, userId, filters, pagination) ==
  LET where == {i \in IssueIds :
                  /\ t.rows[i].present
                  /\ t.rows[i].userId = userId
                  /\ filters.status # "" => t.rows[i].status = filters.status
                  /\ filters.search # "" => t.rows[i].text = filters.search}
      ordered == Newest(where)
      skip == (pagination.page - 1) * pagination.limit
      upto == IF skip + pagination.limit < Len(ordered)
                THEN skip + pagination.limit ELSE Len(ordered)
      page == SubSeq(ordered, skip + 1, upto)
  IN [data |-> [n \in DOMAIN page |-> IssueOf(t, page[n])],
      total |-> Cardinality(where)]

\* prisma.issue.create: a new id; status defaults to OPEN
create(t, userId, data) ==
  [rows |-> [t.rows EXCEPT ![t.next] =
               [present |-> TRUE, userId |-> userId, text |-> data.text,
                status |-> IF data.status = "" THEN "OPEN" ELSE data.status]],
   next |-> t.next + 1]

\* prisma.issue.update({ where: { id } }): the fields given are set
update(t, id, data) ==
  [t EXCEPT !.rows[id].text = IF data.text = "" THEN @ ELSE data.text,
            !.rows[id].status = IF data.status = "" THEN @ ELSE data.status]

\* prisma.issue.delete({ where: { id } })
delete(t, id) == [t EXCEPT !.rows[id] = NoIssue]

Done(t, data, total) == [table |-> t, result |-> "ok", data |-> data, total |-> total]
NotFoundError(t) == [table |-> t, result |-> "NotFoundError", data |-> <<>>, total |-> 0]

createIssue(t, userId, data) ==
  IF userId \notin Users THEN NotFoundError(t)
  ELSE Done(create(t, userId, data), <<IssueOf(create(t, userId, data), t.next)>>, 0)

getIssue(t, userId, issueId) ==
  LET issue == findByIdAndUser(t, issueId, userId)
  IN IF issue = <<>> THEN NotFoundError(t) ELSE Done(t, issue, 0)

getAllIssues(t, userId, filters, pagination) ==
  LET found == findAllByUser(t, userId, filters, pagination)
  IN Done(t, found.data, found.total)

updateIssue(t, userId, issueId, data) ==
  LET existingIssue == findByIdAndUser(t, issueId, userId)
  IN IF existingIssue = <<>> THEN NotFoundError(t)
     ELSE Done(update(t, issueId, data), <<IssueOf(update(t, issueId, data), issueId)>>, 0)

deleteIssue(t, userId, issueId) ==
  LET existingIssue == findByIdAndUser(t, issueId, userId)
  IN IF existingIssue = <<>> THEN NotFoundError(t)
     ELSE Done(delete(t, issueId), <<>>, 0)


\* ------------------------------------------------------------- AuthService
\* The user table, the token and password services and the operations of
\* AuthService, each taken as one step. A user's id is the stored
\* (lower-case) email address.
Emails == {"u@x.io", "v@x.io"}
Addresses == Emails \cup {"U@x.io"}     \* addresses as clients type them
Passwords == {"pass-1", "pass-2"}
toLowerCase(email) == IF email = "U@x.io" THEN "u@x.io" ELSE email

\* bcrypt: the stored hash is not the password, and compare recognises the
\* hash of the same password only
hash(password) == <<"bcrypt", password>>
compare(password, hashedPassword) == hashedPassword = hash(password)

\* jsonwebtoken: the token is determined by the payload, the secret (kind) and
\* iat, the second it was signed in; verify accepts the tokens of its own
\* secret until exp
RefreshTokenExpiry == 7 * 24 * 60 * 60
NoJwt == [kind |-> "none", userId |-> "", iat |-> 0]
generateAccessToken(userId, t) == [kind |-> "access", userId |-> userId, iat |-> t \div 1000]
generateRefreshToken(userId, t) == [kind |-> "refresh", userId |-> userId, iat |-> t \div 1000]
verifyRefreshToken(token, t) ==
  IF token.kind = "refresh" /\ t \div 1000 < token.iat + RefreshTokenExpiry
    THEN token.userId ELSE ""

\* crypto.randomBytes(32).toString('hex'): every token minted differs from
\* those minted before
Tokens == {"4f1c", "9a0e", "c3d7"}
NoToken == ""
randomBytes(minted) == CHOOSE token \in Tokens \ minted : TRUE
PasswordResetExpiry == 60 * 60 * 1000
EmailVerificationExpiry == 24 * 60 * 60 * 1000

NoUser ==
  [present |-> FALSE, password |-> <<>>, emailVerified |-> FALSE,
   refreshToken |-> NoJwt,
   emailVerificationToken |-> NoToken, emailVerificationExpiry |-> 0,
   passwordResetToken |-> NoToken, passwordResetExpiry |-> 0]
NoUsers == [rows |-> [e \in Emails |-> NoUser], minted |-> {}]

\* UserRepository: the lookups return the ids of the matching rows (none or
\* one: email and both token columns are unique)
findById(t, id) == {e \in Emails : e = id /\ t.rows[e].present}
findByEmail(t, email) == findById(t, toLowerCase(email))
findByPasswordResetToken(t, token) ==
  {e \in Emails : t.rows[e].present /\ t.rows[e].passwordResetToken = token}
findByEmailVerificationToken(t, token) ==
  {e \in Emails : t.rows[e].present /\ t.rows[e].emailVerificationToken = token}

createUser(t, email, hashedPassword) ==
  [t EXCEPT !.rows[toLowerCase(email)] =
     [NoUser EXCEPT !.present = TRUE, !.password = hashedPassword]]

updateRefreshToken(t, id, refreshToken) ==
  [t EXCEPT !.rows[id].refreshToken = refreshToken]

setPasswordResetToken(t, id, time) ==
  [t EXCEPT !.rows[id].passwordResetToken = randomBytes(t.minted),
            !.rows[id].passwordResetExpiry = time + PasswordResetExpiry,
            !.minted = @ \cup {randomBytes(t.minted)}]

\* a reset that sets the password and leaves the token in the row
setPasswordOnly(t, id, hashedPassword) ==
  [t EXCEPT !.rows[id].password = hashedPassword]

\* UserRepository.resetPassword
setPassword(t, id, hashedPassword) ==
  [t EXCEPT !.rows[id].password = hashedPassword,
            !.rows[id].passwordResetToken = NoToken,
            !.rows[id].passwordResetExpiry = 0]

setEmailVerificationToken(t, id, time) ==
  [t EXCEPT !.rows[id].emailVerificationToken = randomBytes(t.minted),
            !.rows[id].emailVerificationExpiry = time + EmailVerificationExpiry,
            !.minted = @ \cup {randomBytes(t.minted)}]

\* UserRepository.verifyEmail
setEmailVerified(t, id) ==
  [t EXCEPT !.rows[id].emailVerified = TRUE,
            !.rows[id].emailVerificationToken = NoToken,
            !.rows[id].emailVerificationExpiry = 0]

\* what a call of AuthService leaves in the table, how it ended and the
\* refresh token it returned
Ended(t, result) == [table |-> t, result |-> result, refreshToken |-> NoJwt]
Issued(t, refreshToken) == [table |-> t, result |-> "ok", refreshToken |-> refreshToken]

register(t, email, password, time) ==
  IF findByEmail(t, email) # {} THEN Ended(t, "ConflictError")
  ELSE Ended(setEmailVerificationToken(createUser(t, email, hash(password)),
                                       toLowerCase(email), time), "ok")

verifyEmail(t, token, time) ==
  LET found == findByEmailVerificationToken(t, token) IN
  IF found = {} THEN Ended(t, "NotFoundError")
  ELSE LET id == CHOOSE e \in found : TRUE IN
       IF t.rows[id].emailVerificationExpiry # 0 /\ t.rows[id].emailVerificationExpiry < time
         THEN Ended(t, "AuthenticationError")
         ELSE Ended(setEmailVerified(t, id), "ok")

resendVerificationEmail(t, email, time) ==
  LET found == findByEmail(t, email) IN
  IF found = {} THEN Ended(t, "NotFoundError")
  ELSE LET id == CHOOSE e \in found : TRUE IN
       IF t.rows[id].emailVerified THEN Ended(t, "ConflictError")
       ELSE Ended(setEmailVerificationToken(t, id, time), "ok")

\* a login without the test of emailVerified
loginUnverified(t, email, password, time) ==
  LET found == findByEmail(t, email) IN
  IF found = {} THEN Ended(t, "AuthenticationError")
  ELSE LET id == CHOOSE e \in found : TRUE IN
       IF ~compare(password, t.rows[id].password) THEN Ended(t, "AuthenticationError")
       ELSE Issued(updateRefreshToken(t, id, generateRefreshToken(id, time)),
                   generateRefreshToken(id, time))

login(t, email, password, time) ==
  LET found == findByEmail(t, email) IN
  IF found = {} THEN Ended(t, "AuthenticationError")
  ELSE LET id == CHOOSE e \in found : TRUE IN
       IF ~compare(password, t.rows[id].password) THEN Ended(t, "AuthenticationError")
       ELSE IF ~t.rows[id].emailVerified THEN Ended(t, "AuthenticationError")
       ELSE Issued(updateRefreshToken(t, id, generateRefreshToken(id, time)),
                   generateRefreshToken(id, time))

forgotPassword(t, email, time) ==
  LET found == findByEmail(t, email) IN
  IF found = {} THEN Ended(t, "ok")
  ELSE Ended(setPasswordResetToken(t, CHOOSE e \in found : TRUE, time), "ok")

resetPassword(t, token, newPassword, time) ==
  LET found == findByPasswordResetToken(t, token) IN
  IF found = {} THEN Ended(t, "NotFoundError")
  ELSE LET id == CHOOSE e \in found : TRUE IN
       IF t.rows[id].passwordResetExpiry # 0 /\ t.rows[id].passwordResetExpiry < time
         THEN Ended(t, "AuthenticationError")
         ELSE Ended(setPassword(t, id, hash(newPassword)), "ok")

\* a logout that only clears the cookie
logoutCookieOnly(t, userId) ==
  IF findById(t, userId) = {} THEN Ended(t, "error") ELSE Ended(t, "ok")

\* prisma.user.update throws when there is no row with the id
logout(t, userId) ==
  IF findById(t, userId) = {} THEN Ended(t, "error")
  ELSE Ended(updateRefreshToken(t, userId, NoJwt), "ok")

refreshTokens(t, refreshToken, time) ==
  LET userId == verifyRefreshToken(refreshToken, time) IN
  IF userId = "" THEN Ended(t, "AuthenticationError")
  ELSE IF findById(t, userId) = {} \/ t.rows[userId].refreshToken # refreshToken
    THEN Ended(t, "AuthenticationError")
  ELSE Issued(updateRefreshToken(t, userId, generateRefreshToken(userId, time)),
              generateRefreshToken(userId, time))

\* ------------------------------------------------------------------- state
VARIABLES
  store,      \* the RateLimitRecord table: key -> row or NoRecord
  now,        \* the system clock, in ms
  limiters,   \* names of the limiters this deployment uses
  registry,   \* RateLimiterFactory.instances of each replica: registered names
  last,       \* the call that ran last, the row it found and what it returned
  calls,      \* per identifier: consume calls made in its current window
  wend,       \* per identifier: when that window ends
  fresh,      \* per identifier: the window began on a key without a row
  pc,         \* per request context: the await its consume call has reached
  loc,        \* per request context: identifier, now and record of that call
  granted,    \* per key: the window last granted in and the consumes granted
  ended,      \* how the concurrent consume call that ended last ended
  http,       \* the response of the request handled last
  factory,    \* RateLimiterFactory of one process: instances and the last call
  issues,     \* the Issue table: id -> row or NoIssue, and the ids given out
  answer,     \* the IssueService call that ran last and what it returned
  users,      \* the User table: id -> row or NoUser, and the tokens minted
  auth,       \* the AuthService call that ran last and what it returned
  sessions,   \* per user: the refresh token issued last, logged out since
  spent       \* the reset tokens a resetPassword has succeeded with

vars == <<store, now, limiters, registry, last, calls, wend, fresh, pc, loc,
          granted, ended, http, factory, issues, answer, users, auth, sessions,
          spent>>
window == <<calls, wend, fresh>>
contexts == <<pc, loc, granted, ended>>
accounts == <<users, auth, sessions, spent>>
app == <<http, factory, issues, answer, accounts>>

\* the window ghosts follow one limiter's calls: they are kept only in a
\* deployment with a single name. calls is counted up to one more than any limit
MaxCalls == MaxReq + 2

\* what a call found stored under its key when it started
Found(cfg, record, t) ==
  IF ~record.present THEN "absent"
  ELSE IF record.expiresAt >= t THEN "live"
  ELSE IF record.count >= cfg.maxRequests THEN "expired full" ELSE "expired"

\* how the sweep of a call went: "failed" when the store call of
\* cleanupExpired failed while there were expired rows to delete
Swept(s, t, sweepOk) ==
  IF ~sweepOk /\ deleteExpired(s, t) # s THEN "failed" ELSE "ok"

NoCall == [op |-> "none", replica |-> 0, name |-> "", id |-> "",
           found |-> "absent", handoff |-> "none", sweep |-> "ok",
           result |-> Limited(0)]
Call(op, r, l, id, found, handoff, sweep, res) ==
  [op |-> op, replica |-> r, name |-> l, id |-> id, found |-> found,
   handoff |-> handoff, sweep |-> sweep, result |-> res]

NoLocals == [id |-> "", now |-> 0, record |-> NoRecord]

NoAuth ==
  [op |-> "none", email |-> "", token |-> NoToken, jwt |-> NoJwt, result |-> "",
   refreshToken |-> NoJwt]
NoSession == [token |-> NoJwt, loggedOut |-> FALSE]

InitCommon ==
  /\ store = [k \in Keys |-> NoRecord]
  /\ now = 0
  /\ last = NoCall
  /\ calls = [i \in Identifiers |-> 0]
  /\ wend = [i \in Identifiers |-> 0]
  /\ fresh = [i \in Identifiers |-> TRUE]
  /\ pc = [p \in Procs |-> "idle"]
  /\ loc = [p \in Procs |-> NoLocals]
  /\ granted = [k \in Keys |-> [expiresAt |-> 0, n |-> 0]]
  /\ ended = "none"
  /\ http = NoResponse
  /\ factory = NoFactory
  /\ issues = NoIssues
  /\ answer = NoAnswer
  /\ users = NoUsers
  /\ auth = NoAuth
  /\ sessions = [e \in Emails |-> NoSession]
  /\ spent = {}

\* one limiter name, one server process
Init ==
  /\ InitCommon
  /\ limiters \in {{l} : l \in Names}
  /\ registry = [r \in {1} |-> {}]

\* two limiter names, one server process
InitNamed ==
  /\ InitCommon
  /\ limiters = Names
  /\ registry = [r \in {1} |-> {}]

\* one limiter name, a server process per replica
InitReplicas ==
  /\ InitCommon
  /\ limiters \in {{l} : l \in Names}
  /\ registry = [r \in Replicas |-> {}]

\* the deployment the AuthService calls are followed in
InitAuth ==
  /\ InitCommon
  /\ limiters = {"a"}
  /\ registry = [r \in {1} |-> {}]

\* the configuration of the limiter of a deployment that has one
TheLimit == Config[CHOOSE l \in limiters : TRUE]

\* ----------------------------------------------------------------- actions
Tick ==
  /\ now < MaxTime
  /\ now' = now + TickMs
  /\ UNCHANGED <<store, limiters, registry, last, window, contexts, app>>

\* RateLimiterFactory.get...Limiter / createCustomLimiter in replica r
GetLimiter(r, l) ==
  /\ r \in DOMAIN registry
  /\ l \in limiters
  /\ l \notin registry[r]
  /\ registry' = [registry EXCEPT ![r] = @ \cup {l}]
  /\ UNCHANGED <<store, now, limiters, last, window, contexts, app>>

\* a restart that comes up with an empty table, as it would with counters
\* kept in the memory of the process
RestartCold(r) ==
  /\ r \in DOMAIN registry
  /\ registry[r] # {}
  /\ registry' = [registry EXCEPT ![r] = {}]
  /\ store' = [k \in Keys |-> NoRecord]
  /\ last' = IF last.replica = r THEN [last EXCEPT !.replica = 0] ELSE last
  /\ UNCHANGED <<now, limiters, window, contexts, app>>

\* the server process of replica r is restarted: its static Map starts
\* empty again and the RateLimiter objects it held are gone (replica 0 in
\* last: the object that made the last call no longer exists); the table is
\* in the database and stays
Restart(r) ==
  /\ r \in DOMAIN registry
  /\ registry[r] # {}
  /\ registry' = [registry EXCEPT ![r] = {}]
  /\ last' = IF last.replica = r THEN [last EXCEPT !.replica = 0] ELSE last
  /\ UNCHANGED <<store, now, limiters, window, contexts, app>>

\* the window of the abstract fixed-window counter is over at time t
WindowOver(id, t) == calls[id] = 0 \/ wend[id] < t

\* how a consume through replica r relates to the call before it: it
\* follows a reset of the same identifier (which removed a live record at
\* its limit, or some other), or it continues a window in which the last
\* call was a consume on the same identifier through an object of another
\* replica, or through an object that a restart has destroyed since
Handoff(r, id) ==
  IF last.op = "reset" /\ last.id = id
    THEN IF last.handoff = "full" THEN "reset full" ELSE "reset"
  ELSE IF last.op # "consume" \/ last.id # id \/ WindowOver(id, now) THEN "none"
  ELSE IF last.replica = 0 THEN "restarted"
  ELSE IF last.replica # r THEN "other replica" ELSE "same"

\* the abstract fixed-window counter takes a consume of limiter l on id
Counted(l, id) ==
  IF Cardinality(limiters) > 1 THEN UNCHANGED window
  ELSE IF WindowOver(id, now)
    THEN /\ calls' = [calls EXCEPT ![id] = 1]
         /\ wend' = [wend EXCEPT ![id] = now + Config[l].windowMs]
         /\ fresh' = [fresh EXCEPT ![id] = ~store[generateKey(id)].present]
    ELSE /\ calls' = [calls EXCEPT ![id] = IF @ < MaxCalls THEN @ + 1 ELSE @]
         /\ UNCHANGED <<wend, fresh>>

Consume(r, l, id) ==
  /\ r \in DOMAIN registry
  /\ l \in registry[r]
  /\ \E sweepOk \in BOOLEAN :
       LET out == consume(Config[l], store, id, now, sweepOk)
       IN /\ store' = out.store
          /\ last' = Call("consume", r, l, id,
                          Found(Config[l], store[generateKey(id)], now),
                          Handoff(r, id), Swept(store, now, sweepOk), out.result)
  /\ Counted(l, id)
  /\ UNCHANGED <<now, limiters, registry, contexts, app>>

Check(r, l, id) ==
  /\ r \in DOMAIN registry
  /\ l \in registry[r]
  /\ \E sweepOk \in BOOLEAN :
       LET out == check(Config[l], store, id, now, sweepOk)
       IN /\ store' = out.store
          /\ last' = Call("check", r, l, id,
                          Found(Config[l], store[generateKey(id)], now),
                          "none", Swept(store, now, sweepOk), out.result)
  /\ UNCHANGED <<now, limiters, registry, window, contexts, app>>

Reset(r, l, id) ==
  /\ r \in DOMAIN registry
  /\ l \in registry[r]
  /\ store' = reset(store, id)
  /\ last' = Call("reset", r, l, id,
                  Found(Config[l], store[generateKey(id)], now),
                  IF Live(store[generateKey(id)], now)
                       /\ Exhausted(Config[l], store[generateKey(id)])
                    THEN "full" ELSE "none",
                  "ok", Limited(0))
  /\ calls' = [calls EXCEPT ![id] = 0]
  /\ wend' = [wend EXCEPT ![id] = 0]
  /\ fresh' = [fresh EXCEPT ![id] = TRUE]
  /\ UNCHANGED <<now, limiters, registry, contexts, app>>

Next ==
  \/ Tick
  \/ \E r \in Replicas, l \in Names : GetLimiter(r, l)
  \/ \E r \in Replicas : Restart(r)
  \/ \E r \in Replicas, l \in Names, id \in Identifiers : Consume(r, l, id)
  \/ \E r \in Replicas, l \in Names, id \in Identifiers : Check(r, l, id)
  \/ \E r \in Replicas, l \in Names, id \in Identifiers : Reset(r, l, id)

Spec == Init /\ [][Next]_vars

SpecNamed == InitNamed /\ [][Next]_vars

SpecReplicas == InitReplicas /\ [][Next]_vars

\* ------------------------------------------- consume, one await at a time
\* Request contexts run consume concurrently; between two awaits of one call
\* the calls of the others and the clock may take any number of steps. Each
\* step below is one round trip to the store together with the synchronous
\* code that follows it up to the next await.
sequential == <<registry, last, window>>

\* the identifier the request contexts contend for
Contended == {"login:ip1"}

\* line 59-62: the call starts and awaits cleanupExpired
Begin(p, id) ==
  /\ pc[p] = "idle"
  /\ pc' = [pc EXCEPT ![p] = "sweep"]
  /\ loc' = [loc EXCEPT ![p] = [NoLocals EXCEPT !.id = id]]
  /\ UNCHANGED <<store, now, limiters, granted, ended, sequential, app>>

\* line 62, 111-121: the sweep runs in the store, or fails and is swallowed
Sweep(p) ==
  /\ pc[p] = "sweep"
  /\ \E sweepOk \in BOOLEAN : store' = cleanupExpired(store, now, sweepOk)
  /\ pc' = [pc EXCEPT ![p] = "read"]
  /\ UNCHANGED <<now, limiters, loc, granted, ended, sequential, app>>

\* line 64-67: now is taken and the record is looked up
Read(p) ==
  /\ pc[p] = "read"
  /\ loc' = [loc EXCEPT ![p].now = now,
                        ![p].record = findUnique(store, generateKey(loc[p].id))]
  /\ pc' = [pc EXCEPT ![p] = "write"]
  /\ UNCHANGED <<store, now, limiters, granted, ended, sequential, app>>

\* a successful consume returned the row r of key
Grant(key, r) ==
  granted' = [granted EXCEPT ![key] =
                IF @.n > 0 /\ @.expiresAt = r.expiresAt
                  THEN [@ EXCEPT !.n = @ + 1]
                  ELSE [expiresAt |-> r.expiresAt, n |-> 1]]

\* line 69-81: the record was missing or expired at the lookup: upsert
WriteUpsert(p) ==
  LET key == generateKey(loc[p].id) IN
  /\ pc[p] = "write"
  /\ Expired(loc[p].record, loc[p].now)
  /\ store' = upsert(store, key, calculateResetTime(TheLimit, now))
  /\ Grant(key, store'[key])
  /\ ended' = "RateLimitInfo"
  /\ pc' = [pc EXCEPT ![p] = "idle"]
  /\ loc' = [loc EXCEPT ![p] = NoLocals]
  /\ UNCHANGED <<now, limiters, sequential, app>>

\* line 83-86: the record read was live and at the limit: RateLimitError
WriteReject(p) ==
  /\ pc[p] = "write"
  /\ ~Expired(loc[p].record, loc[p].now)
  /\ Exhausted(TheLimit, loc[p].record)
  /\ ended' = "RateLimitError"
  /\ pc' = [pc EXCEPT ![p] = "idle"]
  /\ loc' = [loc EXCEPT ![p] = NoLocals]
  /\ UNCHANGED <<store, now, limiters, granted, sequential, app>>

\* line 88-91: the record read was live and below the limit: increment the
\* row as it is now; update throws when the row has been deleted meanwhile
\* (Prisma: "record to update not found"), and consume rethrows it
WriteIncrement(p) ==
  LET key == generateKey(loc[p].id) IN
  /\ pc[p] = "write"
  /\ ~Expired(loc[p].record, loc[p].now)
  /\ ~Exhausted(TheLimit, loc[p].record)
  /\ IF store[key].present
       THEN /\ store' = increment(store, key)
            /\ Grant(key, store'[key])
            /\ ended' = "RateLimitInfo"
       ELSE /\ ended' = "RecordNotFound"
            /\ UNCHANGED <<store, granted>>
  /\ pc' = [pc EXCEPT ![p] = "idle"]
  /\ loc' = [loc EXCEPT ![p] = NoLocals]
  /\ UNCHANGED <<now, limiters, sequential, app>>

NextConc ==
  \/ Tick
  \/ \E p \in Procs, id \in Contended : Begin(p, id)
  \/ \E p \in Procs : Sweep(p)
  \/ \E p \in Procs : Read(p)
  \/ \E p \in Procs : WriteUpsert(p)
  \/ \E p \in Procs : WriteReject(p)
  \/ \E p \in Procs : WriteIncrement(p)

SpecConc == Init /\ [][NextConc]_vars

\* ---------------------------------------------------- a request is handled
rateLimiter == <<store, last, window>>

\* a request to endpoint e from ClientIP, handled in replica r with limiter
\* l: consume is awaited first in the try block; what it returns or throws
\* and what the rest of the block does decide the response
Handle(r, l, e) ==
  /\ r \in DOMAIN registry
  /\ l \in registry[r]
  /\ \E sweepOk \in BOOLEAN, fault \in Faults, op \in Operations :
       LET id == IdentifierOf(e)
           out == consumeIO(Config[l], store, id, now, sweepOk, fault)
       IN /\ store' = out.store
          /\ last' = Call("consume", r, l, id,
                          Found(Config[l], store[generateKey(id)], now),
                          Handoff(r, id), Swept(store, now, sweepOk), out.result)
          /\ IF out.result.status = "error" THEN UNCHANGED window ELSE Counted(l, id)
          /\ http' = Respond(e, out.result, op,
                             Occurred(Config[l], store, id, now, sweepOk, fault))
  /\ UNCHANGED <<now, limiters, registry, contexts, factory, issues, answer, accounts>>

NextHttp ==
  \/ Tick
  \/ \E r \in Replicas, l \in Names : GetLimiter(r, l)
  \/ \E r \in Replicas, l \in Names, e \in Endpoints : Handle(r, l, e)

SpecHttp == Init /\ [][NextHttp]_vars

\* ------------------------------------------------- the factory of a process
GetDefaultLimiter ==
  /\ factory' = getDefaultLimiter(factory)
  /\ UNCHANGED <<now, limiters, registry, rateLimiter, contexts, http, issues, answer, accounts>>

GetAuthLimiter ==
  /\ factory' = getAuthLimiter(factory)
  /\ UNCHANGED <<now, limiters, registry, rateLimiter, contexts, http, issues, answer, accounts>>

GetStrictLimiter ==
  /\ factory' = getStrictLimiter(factory)
  /\ UNCHANGED <<now, limiters, registry, rateLimiter, contexts, http, issues, answer, accounts>>

CreateCustomLimiter(name, cfg) ==
  /\ factory' = createCustomLimiter(factory, name, cfg)
  /\ UNCHANGED <<now, limiters, registry, rateLimiter, contexts, http, issues, answer, accounts>>

NextFactory ==
  \/ GetDefaultLimiter
  \/ GetAuthLimiter
  \/ GetStrictLimiter
  \/ \E name \in FactoryNames, cfg \in CustomConfigs : CreateCustomLimiter(name, cfg)

SpecFactory == Init /\ [][NextFactory]_vars

\* ------------------------------------------------------------ IssueService
IssueData == [text : Texts \cup {""}, status : Statuses \cup {""}]
Filters == [status : {"", "OPEN"}, search : {"", "stored xss"}]
Paginations == [page : {1, 2}, limit : {1, 10}]

Answer(op, userId, issueId, out) ==
  [op |-> op, userId |-> userId, issueId |-> issueId, result |-> out.result,
   data |-> out.data, total |-> out.total]

Returns(op, userId, issueId, out) ==
  /\ issues' = out.table
  /\ answer' = Answer(op, userId, issueId, out)
  /\ UNCHANGED <<now, limiters, registry, rateLimiter, contexts, http, factory, accounts>>

\* the validator of createIssue requires title and description
CreateIssue(userId, data) ==
  /\ issues.next <= MaxIssues
  /\ data.text # ""
  /\ Returns("createIssue", userId, 0, createIssue(issues, userId, data))

GetIssue(userId, issueId) ==
  /\ issueId \in IssueIds
  /\ Returns("getIssue", userId, issueId, getIssue(issues, userId, issueId))

GetAllIssues(userId, filters, pagination) ==
  /\ pagination.page >= 1
  /\ Returns("getAllIssues", userId, 0, getAllIssues(issues, userId, filters, pagination))

UpdateIssue(userId, issueId, data) ==
  /\ issueId \in IssueIds
  /\ Returns("updateIssue", userId, issueId, updateIssue(issues, userId, issueId, data))

DeleteIssue(userId, issueId) ==
  /\ issueId \in IssueIds
  /\ Returns("deleteIssue", userId, issueId, deleteIssue(issues, userId, issueId))

NextIssues ==
  \/ \E u \in Callers, data \in IssueData : CreateIssue(u, data)
  \/ \E u \in Callers, i \in IssueIds : GetIssue(u, i)
  \/ \E u \in Callers, f \in Filters, p \in Paginations : GetAllIssues(u, f, p)
  \/ \E u \in Callers, i \in IssueIds, data \in IssueData : UpdateIssue(u, i, data)
  \/ \E u \in Callers, i \in IssueIds : DeleteIssue(u, i)

SpecIssues == Init /\ [][NextIssues]_vars

\* ------------------------------------------------------------- AuthService
ElapseMs == 25 * 60 * 60 * 1000
AuthTimes == {k * ElapseMs : k \in 0..MaxElapses}
\* the tokens a client may present as refresh token: the refresh tokens the
\* service can have signed, and an access token
Jwts == {generateRefreshToken(e, t) : e \in Emails, t \in AuthTimes}
          \cup {generateAccessToken("u@x.io", 0)}

\* time passes: twenty-five hours, more than a reset token and a
\* verification token last and less than a refresh token does
Elapse ==
  /\ now < MaxElapses * ElapseMs
  /\ now' = now + ElapseMs
  /\ UNCHANGED <<store, limiters, registry, last, window, contexts, app>>

\* auth keeps the call the service ran last; of a login, a logout, a
\* refreshTokens and a resetPassword also how it ended, and the user, the
\* refresh token or the reset token it was called with
Recorded == {"login", "logout", "refreshTokens", "resetPassword"}
AuthReturns(op, email, token, jwt, out) ==
  /\ users' = out.table
  /\ auth' = [op |-> op, email |-> email, token |-> token, jwt |-> jwt,
              result |-> IF op \in Recorded THEN out.result ELSE "",
              refreshToken |-> out.refreshToken]
  /\ UNCHANGED <<now, limiters, registry, rateLimiter, contexts, http, factory,
                 issues, answer>>

Register(email, password) ==
  /\ users.minted # Tokens
  /\ AuthReturns("register", "", NoToken, NoJwt, register(users, email, password, now))
  /\ UNCHANGED <<sessions, spent>>

VerifyEmail(token) ==
  /\ token \in Tokens
  /\ AuthReturns("verifyEmail", "", NoToken, NoJwt, verifyEmail(users, token, now))
  /\ UNCHANGED <<sessions, spent>>

ResendVerificationEmail(email) ==
  /\ users.minted # Tokens
  /\ AuthReturns("resendVerificationEmail", "", NoToken, NoJwt,
                 resendVerificationEmail(users, email, now))
  /\ UNCHANGED <<sessions, spent>>

Login(email, password) ==
  LET out == login(users, email, password, now) IN
  /\ email \in Addresses
  /\ AuthReturns("login", toLowerCase(email), NoToken, NoJwt, out)
  /\ sessions' = IF out.result = "ok"
                   THEN [sessions EXCEPT ![toLowerCase(email)] =
                           [token |-> out.refreshToken, loggedOut |-> FALSE]]
                   ELSE sessions
  /\ UNCHANGED spent

Logout(userId) ==
  LET out == logout(users, userId) IN
  /\ userId \in Emails
  /\ AuthReturns("logout", userId, NoToken, NoJwt, out)
  /\ sessions' = IF out.result = "ok"
                   THEN [sessions EXCEPT ![userId].loggedOut = TRUE]
                   ELSE sessions
  /\ UNCHANGED spent

RefreshTokens(refreshToken) ==
  LET out == refreshTokens(users, refreshToken, now) IN
  /\ refreshToken \in Jwts
  /\ AuthReturns("refreshTokens", "", NoToken, refreshToken, out)
  /\ sessions' = IF out.result = "ok"
                   THEN [sessions EXCEPT ![refreshToken.userId].token = out.refreshToken]
                   ELSE sessions
  /\ UNCHANGED spent

ForgotPassword(email) ==
  /\ users.minted # Tokens
  /\ AuthReturns("forgotPassword", "", NoToken, NoJwt, forgotPassword(users, email, now))
  /\ UNCHANGED <<sessions, spent>>

ResetPassword(token, newPassword) ==
  LET out == resetPassword(users, token, newPassword, now) IN
  /\ token \in Tokens
  /\ AuthReturns("resetPassword", "", token, NoJwt, out)
  /\ spent' = IF out.result = "ok" THEN spent \cup {token} ELSE spent
  /\ UNCHANGED sessions

NextAuth ==
  \/ Elapse
  \/ \E email \in Addresses, password \in Passwords : Register(email, password)
  \/ \E token \in Tokens : VerifyEmail(token)
  \/ \E email \in Addresses : ResendVerificationEmail(email)
  \/ \E email \in Addresses, password \in Passwords : Login(email, password)
  \/ \E userId \in Emails : Logout(userId)
  \/ \E refreshToken \in Jwts : RefreshTokens(refreshToken)
  \/ \E email \in Addresses : ForgotPassword(email)
  \/ \E token \in Tokens, password \in Passwords : ResetPassword(token, password)

SpecAuth == InitAuth /\ [][NextAuth]_vars

TypeOK ==
  /\ now \in Times
  /\ limiters \subseteq Names
  /\ \A k \in Keys : store[k].present \in BOOLEAN
\* ------------------------------------------------------------------ claims
KeyOfLast == generateKey(last.id)

\* the step is a call of the named operation: last' describes a call made
\* through a live object (a restart leaves replica 0 there), and the step is
\* not one that leaves the table, the result and the counters as they were
Changed == <<store, last, calls>>' # <<store, last, calls>> /\ last'.replica # 0
ConsumeStep == last'.op = "consume" /\ Changed
CheckStep == last'.op = "check" /\ Changed
ResetStep == last'.op = "reset" /\ Changed
KeyOfStep == generateKey(last'.id)
LimitOfStep == Config[last'.name]

\* C1: on a key that had no stored record, the k-th consume call of the
\* window succeeds with remaining = maxRequests - k for k = 1..maxRequests,
\* and the call after these, still inside the window, is rejected.
C1_QuotaOfFreshKey ==
  (last.op = "consume" /\ fresh[last.id]) =>
     IF calls[last.id] <= TheLimit.maxRequests
       THEN /\ last.result.status = "ok"
            /\ last.result.remaining = TheLimit.maxRequests - calls[last.id]
       ELSE last.result.status = "limited"

C1_Witness ==
  /\ last.op = "consume" /\ fresh[last.id]
  /\ calls[last.id] = TheLimit.maxRequests + 1
  /\ last.result.status = "limited"

\* C2: for one key no more than maxRequests consume calls succeed inside one
\* window, however the calls of several request contexts interleave between
\* their lookup and their write.
C2_NoOvergrantInWindow ==
  \A k \in Keys : granted[k].n <= TheLimit.maxRequests

\* C3: with calls that do not overlap, a stored record whose window has not
\* expired never has count > maxRequests, and a consume that finds the live
\* record at the limit is rejected and leaves count as it was.
C3_CountBounded ==
  /\ [](\A k \in Keys : Live(store[k], now) => store[k].count <= TheLimit.maxRequests)
  /\ [][(/\ ConsumeStep
          /\ Live(store[KeyOfStep], now)
          /\ store[KeyOfStep].count >= LimitOfStep.maxRequests)
         => /\ last'.result.status = "limited"
            /\ store'[KeyOfStep].count = store[KeyOfStep].count]_vars

C3_Witness ==
  /\ last.op = "consume" /\ last.result.status = "limited"
  /\ Live(store[KeyOfLast], now)
  /\ store[KeyOfLast].count = TheLimit.maxRequests

\* C5: a consume on a key whose record has expiresAt < now succeeds, stores
\* count = 1 and expiresAt = now + windowMs and returns remaining =
\* maxRequests - 1, whatever count the expired record had.
C5_ExpiredStartsNewWindow ==
  [][(/\ ConsumeStep
      /\ store[KeyOfStep].present
      /\ store[KeyOfStep].expiresAt < now)
     => /\ last'.result.status = "ok"
        /\ last'.result.remaining = LimitOfStep.maxRequests - 1
        /\ store'[KeyOfStep] = Row(1, now + LimitOfStep.windowMs)]_vars

C5_Witness ==
  /\ last.op = "consume" /\ last.result.status = "ok"
  /\ last.found = "expired full"
  /\ store[KeyOfLast].count = 1

\* C10: a consume rejected with RateLimitError leaves the record of its key
\* with the count and expiresAt it had before the call.
C10_RejectionKeepsRecord ==
  [][(ConsumeStep /\ last'.result.status = "limited")
     => /\ store[KeyOfStep].present
        /\ store'[KeyOfStep] = store[KeyOfStep]]_vars

C10_Witness ==
  /\ last.op = "consume" /\ last.result.status = "limited"
  /\ last.found = "live"
  /\ Live(store[KeyOfLast], now)
\* consume calls that may follow a state: a first one on some identifier, at
\* once or a tick later, with its sweep working or failing, and a second one
\* a tick after it
PlanStep == [id : Identifiers, dt : {0, TickMs}, sweepOk : BOOLEAN]
PlanThen == [id : Identifiers, dt : {TickMs}, sweepOk : {TRUE}]
Plans == {<<c, d>> : c \in PlanStep, d \in PlanThen}
PlansOn(id) == {p \in Plans : \A n \in DOMAIN p : p[n].id = id}

\* what the consumes of plan p return when they start from table s at time t
RECURSIVE Outcomes(_, _, _, _)
Outcomes(cfg, s, t, p) ==
  IF p = <<>> THEN <<>>
  ELSE LET c == Head(p)
           out == consume(cfg, s, c.id, t + c.dt, c.sweepOk)
       IN <<out.result>> \o Outcomes(cfg, out.store, t + c.dt, Tail(p))

\* the record as a caller can observe it at time t: an expired row counts as
\* no row
LiveView(record, t) == IF Live(record, t) THEN record ELSE NoRecord

\* C4: two differently named limiters given the same identifier address
\* different records: a consume through one changes neither the live record
\* nor the result of a check or a consume made through the other with that
\* identifier.
C4_NamedLimitersApart ==
  [][ConsumeStep =>
       \A m \in limiters \ {last'.name} :
          /\ LiveView(store'[KeyOfStep], now) = LiveView(store[KeyOfStep], now)
          /\ check(Config[m], store', last'.id, now, TRUE).result
               = check(Config[m], store, last'.id, now, TRUE).result
          /\ consume(Config[m], store', last'.id, now, TRUE).result
               = consume(Config[m], store, last'.id, now, TRUE).result]_vars

\* C6: check does not change what later consumes return: from the table a
\* check leaves, every plan of consumes gets the results it gets from the
\* table the check found, at the same times.
C6_CheckKeepsOutcomes ==
  [][CheckStep =>
       \/ store' = store
       \/ \A p \in Plans :
            Outcomes(LimitOfStep, store', now, p) = Outcomes(LimitOfStep, store, now, p)]_vars

C6_Witness ==
  /\ last.op = "check"
  /\ last.found \in {"expired", "expired full"}
  /\ ~store[KeyOfLast].present
  /\ last.result.remaining = TheLimit.maxRequests

\* C7 as claimed: a check call leaves the record table unchanged.
C7_CheckLeavesTable == [][CheckStep => store' = store]_vars

\* C7 amended: check creates no record, modifies none and deletes no record
\* that has not expired; the one change it makes to the table is to delete
\* records with expiresAt < now, the record of its own key among them.
C7_CheckOnlySweeps ==
  [][CheckStep =>
       \A k \in Keys :
          \/ store'[k] = store[k]
          \/ /\ store[k].present /\ store[k].expiresAt < now
             /\ store'[k] = NoRecord]_vars

C7_Witness ==
  /\ last.op = "check"
  /\ last.found = "expired"
  /\ ~store[KeyOfLast].present
  /\ \E k \in Keys : Live(store[k], now)

\* C8: a consume, check or reset on identifier a leaves, for every other
\* identifier b, b's live record and the results of the checks and consumes
\* that follow on b as they were.
C8_IdentifiersApart ==
  [][(ConsumeStep \/ CheckStep \/ ResetStep) =>
       \A b \in Identifiers \ {last'.id} :
          /\ LiveView(store'[generateKey(b)], now) = LiveView(store[generateKey(b)], now)
          /\ \/ store'[generateKey(b)] = store[generateKey(b)]
             \/ /\ check(LimitOfStep, store', b, now, TRUE).result
                     = check(LimitOfStep, store, b, now, TRUE).result
                /\ \A p \in PlansOn(b) :
                     Outcomes(LimitOfStep, store', now, p)
                       = Outcomes(LimitOfStep, store, now, p)]_vars

C8_Witness ==
  /\ last.op = "consume" /\ last.result.status = "limited"
  /\ \E b \in Identifiers \ {last.id} :
       /\ Live(store[generateKey(b)], now)
       /\ store[generateKey(b)].count = 1

C11_ConsumeAfterReset ==
  [][(ConsumeStep /\ last.op = "reset" /\ last.id = last'.id) =>
       /\ last'.result.status = "ok"
       /\ last'.result.limit = LimitOfStep.maxRequests
       /\ last'.result.remaining = LimitOfStep.maxRequests - 1
       /\ store'[KeyOfStep] = Row(1, now' + LimitOfStep.windowMs)]_vars
C11_Witness ==
  /\ last.op = "consume" /\ last.handoff = "reset full"
  /\ last.result.status = "ok"
  /\ last.result.remaining = Config[last.name].maxRequests - 1

\* C12: reset(identifier) removes the record of that identifier and no
\* other row; where the identifier has no record it changes nothing; a
\* second reset right after it changes nothing either.
C12_ResetIdempotent ==
  [][ResetStep =>
       /\ store'[KeyOfStep] = NoRecord
       /\ \A k \in Keys \ {KeyOfStep} : store'[k] = store[k]
       /\ ~store[KeyOfStep].present => store' = store
       /\ reset(store', last'.id) = store']_vars
C12_Witness ==
  /\ last.op = "reset" /\ last.found = "absent"
  /\ \E k \in Keys \ {KeyOfLast} : store[k].present

\* C13: check(identifier) returns limit = maxRequests; with no record, or
\* with one whose expiresAt < now, remaining = maxRequests and
\* reset = ceil((now + windowMs) / 1000); otherwise
\* remaining = max(0, maxRequests - count) and reset = ceil(expiresAt / 1000).
C13_CheckReports ==
  [][CheckStep =>
       LET record == store[KeyOfStep]
           cfg == LimitOfStep
           gone == ~record.present \/ record.expiresAt < now
           resetMs == IF gone THEN now + cfg.windowMs ELSE record.expiresAt
           left == IF gone THEN cfg.maxRequests
                   ELSE IF cfg.maxRequests > record.count
                     THEN cfg.maxRequests - record.count ELSE 0
       IN /\ last'.result.status = "ok"
          /\ last'.result.limit = cfg.maxRequests
          /\ last'.result.remaining = left
          /\ last'.result.reset * 1000 >= resetMs
          /\ (last'.result.reset - 1) * 1000 < resetMs]_vars
C13_Witness ==
  /\ last.op = "check" /\ last.found = "live"
  /\ last.result.remaining < last.result.limit
  /\ store[KeyOfLast].present
  /\ store[KeyOfLast].expiresAt % 1000 # 0
  /\ last.result.reset * 1000 > store[KeyOfLast].expiresAt

\* C14: a rejecting consume reports retryAfter = ceil((expiresAt - now) /
\* 1000) for the stored record; the value is not negative and not greater
\* than ceil(windowMs / 1000) of the limiter that rejected.
C14_RetryAfterWithinWindow ==
  [][(ConsumeStep /\ last'.result.status = "limited") =>
       LET ms == store[KeyOfStep].expiresAt - now
           retryAfter == last'.result.retryAfter
       IN /\ retryAfter * 1000 >= ms
          /\ (retryAfter - 1) * 1000 < ms
          /\ retryAfter >= 0
          /\ retryAfter * 1000 < LimitOfStep.windowMs + 1000]_vars

\* C15: a sweep that fails does not make consume or check fail: the call
\* goes on and returns what it would have returned had the sweep succeeded.
C15_SweepFailureSwallowed ==
  [][/\ ConsumeStep =>
          /\ last'.result = consume(LimitOfStep, store, last'.id, now, TRUE).result
          /\ last'.result = consume(LimitOfStep, store, last'.id, now, FALSE).result
     /\ CheckStep =>
          /\ last'.result = check(LimitOfStep, store, last'.id, now, TRUE).result
          /\ last'.result = check(LimitOfStep, store, last'.id, now, FALSE).result]_vars
C15_Witness ==
  /\ last.op = "consume" /\ last.sweep = "failed"
  /\ last.found \in {"expired", "expired full"}
  /\ last.result.status = "ok"

\* the step is a request handled: its consume and its response
HandleStep ==
  /\ last'.op = "consume" /\ last'.replica # 0
  /\ <<store, last, http>>' # <<store, last, http>>

\* C16: when the lookup, the upsert or the increment of consume fails in
\* the store, consume ends in a failure, neither allowing nor rejecting by
\* rate limit, nothing is counted, and the handler answers 500 without
\* calling the service.
C16_StoreFailureAnswers500 ==
  [][(HandleStep /\ http'.fault # "none") =>
       /\ last'.result.status = "error"
       /\ \A k \in Keys : store'[k] \in {store[k], NoRecord}
       /\ http'.status = 500
       /\ ~http'.ran
       /\ http'.headers = NoHeaders]_vars
C16_Witness ==
  /\ http.fault = "write" /\ http.status = 500
  /\ last.op = "consume" /\ last.result.status = "error"
  /\ last.found = "live"

\* C17: on every rate-limited endpoint the response to a request that
\* consume rejected has status 429 and carries a retry-after value equal to
\* the retryAfter of the RateLimitError.
C17_RejectionCarriesRetryAfter ==
  (http.endpoint # "" /\ last.op = "consume" /\ last.result.status = "limited") =>
    /\ http.status = 429
    /\ http.retryAfter = last.result.retryAfter

\* C18: each of getDefaultLimiter, getAuthLimiter and getStrictLimiter
\* returns, at every call in the process, the one object registered under
\* its name, and that object is configured with 100 requests per 15 minutes
\* (default), 20 per 15 minutes (auth), 10 per minute (strict).
C18_GettersReturnBuiltIn ==
  [][(factory' # factory /\ factory'.by \in Getters) =>
       LET name == factory'.name IN
       /\ has(factory, name) => factory'.got = factory.instances[name]
       /\ factory'.instances[name] = factory'.got
       /\ ConfigOf(factory'.got) = BuiltIn[name]]_vars

\* the tables of count and expiry rows
Tables == [Keys -> [present : BOOLEAN, count : Nat, expiresAt : Nat]]

\* of n consume calls that one client makes at time t, the first on table
\* s, exactly the first a succeed (out: the outcome of the next call)
RECURSIVE Admits(_, _, _, _, _)
Admits(cfg, s, t, n, a) ==
  IF n = 0 THEN a = 0
  ELSE \E out \in {consume(cfg, s, "login:ip1", t, TRUE)} :
         /\ out.store \in Tables
         /\ IF out.result.status = "ok"
              THEN Admits(cfg, out.store, t, n - 1, a - 1)
              ELSE a = 0

\* after n consume calls that one client makes at time t, the first on
\* table s, its consume at time later is rejected
RECURSIVE RejectedAfter(_, _, _, _, _)
RejectedAfter(cfg, s, t, n, later) ==
  IF n = 0 THEN consume(cfg, s, "login:ip1", later, TRUE).result.status = "limited"
  ELSE \E out \in {consume(cfg, s, "login:ip1", t, TRUE)} :
         /\ out.store \in Tables
         /\ RejectedAfter(cfg, out.store, t, n - 1, later)

\* C19: the limiters admit what the README states: the auth limiter 50
\* requests per 15-minute window, the 51st being the first rejected; the
\* strict limiter 10, the 11th being the first rejected, and a client it
\* has rejected stays rejected until 15 minutes after the window started.
C19_ReadmeLimits ==
  LET empty == [k \in Keys |-> NoRecord]
      cfg == ConfigOf(factory.got)
  IN /\ factory.by = "getAuthLimiter" =>
          Admits(cfg, empty, 0, Readme.auth.maxRequests + 1, Readme.auth.maxRequests)
     /\ factory.by = "getStrictLimiter" =>
          /\ Admits(cfg, empty, 0, Readme.strict.maxRequests + 1,
                    Readme.strict.maxRequests)
          /\ \A later \in {0, BuiltIn.strict.windowMs + 1, Readme.strict.windowMs} :
               RejectedAfter(cfg, empty, 0, Readme.strict.maxRequests, later)

\* the step is a call of IssueService
IssueStep == <<issues, answer>>' # <<issues, answer>>

\* C20: getIssue, updateIssue and deleteIssue called with a user other than
\* the one who created the issue fail with NotFoundError and leave the
\* table as it is, and getAllIssues returns only issues of the calling user.
C20_IssuesScopedPerUser ==
  [][IssueStep =>
       LET u == answer'.userId
           i == answer'.issueId
       IN /\ (/\ answer'.op \in {"getIssue", "updateIssue", "deleteIssue"}
              /\ issues.rows[i].present
              /\ issues.rows[i].userId # u) =>
                /\ answer'.result = "NotFoundError"
                /\ answer'.data = <<>>
                /\ issues' = issues
          /\ answer'.op = "getAllIssues" =>
                \A n \in DOMAIN answer'.data : answer'.data[n].userId = u
          /\ \A j \in IssueIds :
                (issues.rows[j].present /\ issues.rows[j].userId # u) =>
                   issues'.rows[j] = issues.rows[j]]_vars
C20_Witness ==
  /\ answer.op = "updateIssue" /\ answer.result = "NotFoundError"
  /\ answer.userId \in Users
  /\ issues.rows[answer.issueId].present
  /\ issues.rows[answer.issueId].userId \in Users \ {answer.userId}
  /\ \E j \in IssueIds : issues.rows[j].present /\ issues.rows[j].userId = answer.userId

\* C22: the window is fixed: while a record is live no part of a consume call
\* and no check changes its expiresAt, and its count changes only by +1 (on a
\* successful consume).
C22_WindowFixed ==
  [][\A k \in Keys :
       (Live(store[k], now) /\ store'[k].present) =>
          /\ store'[k].expiresAt = store[k].expiresAt
          /\ store'[k].count \in {store[k].count, store[k].count + 1}]_vars

\* C23: with any number of concurrently executing consume calls on one key,
\* the stored count of a live window never exceeds maxRequests + 1.
C23_OvercountAtMostOne ==
  \A k \in Keys :
    Live(store[k], now) => store[k].count <= TheLimit.maxRequests + 1

\* C24: for a key with a live window the stored count equals the number of
\* consume calls that succeeded in that window.
C24_NoConsumptionLost ==
  \A k \in Keys :
    (Live(store[k], now) /\ granted[k].n > 0
       /\ granted[k].expiresAt = store[k].expiresAt) =>
      store[k].count = granted[k].n

\* C25: with the store available, a consume call ends only by returning a
\* RateLimitInfo or by throwing RateLimitError.
C25_ConsumeEndsInInfoOrRejection ==
  ended \in {"none", "RateLimitInfo", "RateLimitError"}

\* C26: a record whose expiresAt is not in the past is never deleted by a
\* consume or check call on any key; a live record disappears only through
\* reset of its own key.
C26_OnlyExpiredSwept ==
  [][\A k \in Keys :
       (Live(store[k], now) /\ ~store'[k].present) =>
          (ResetStep /\ KeyOfStep = k)]_vars
C26_Witness ==
  /\ last.op = "check" /\ last.sweep = "ok"
  /\ last.found \in {"expired", "expired full"}
  /\ ~store[KeyOfLast].present
  /\ \E k \in Keys : k # KeyOfLast /\ Live(store[k], now)

\* C30: once a name is registered in RateLimiterFactory its instance and
\* configuration never change: createCustomLimiter with a registered name
\* (the names of the three getters included) returns the registered instance
\* and ignores the configuration passed.
C30_RegisteredInstanceKept ==
  [][factory' # factory =>
       /\ \A n \in FactoryNames :
            has(factory, n) => factory'.instances[n] = factory.instances[n]
       /\ (factory'.by = "createCustomLimiter" /\ has(factory, factory'.name)) =>
            factory'.got = factory.instances[factory'.name]]_vars
C30_Witness ==
  /\ factory.by = "createCustomLimiter" /\ factory.name = "auth"
  /\ factory.got = factory.instances["auth"]
  /\ ConfigOf(factory.got) = BuiltIn.auth
  /\ ConfigOf(factory.got) \notin CustomConfigs

\* C27: a request rejected by the rate limiter has no other effect: when
\* consume throws RateLimitError the handler calls no service and writes
\* nothing (the sweep of consume came before the rejection), and it answers
\* 429 without rate-limit headers.
C27_RejectedRequestHasNoEffect ==
  [][(HandleStep /\ last'.result.status = "limited") =>
       /\ ~http'.ran
       /\ http'.status = 429
       /\ http'.headers = NoHeaders
       /\ \A k \in Keys :
            \/ store'[k] = store[k]
            \/ Expired(store[k], now) /\ store'[k] = NoRecord
       /\ <<factory, issues, answer>>' = <<factory, issues, answer>>]_vars
C27_Witness ==
  /\ http.endpoint = "login" /\ http.status = 429 /\ ~http.ran
  /\ last.op = "consume" /\ last.result.status = "limited"
  /\ last.found = "live"

\* the step is a call of AuthService
AuthStep == <<users, auth>>' # <<users, auth>>

C28_LogoutEndsRefresh ==
  [][(AuthStep /\ auth'.op = "refreshTokens"
        /\ sessions[auth'.jwt.userId].loggedOut) =>
       /\ auth'.result = "AuthenticationError"
       /\ auth'.refreshToken = NoJwt
       /\ users' = users]_vars
C28_Witness ==
  /\ auth.op = "refreshTokens" /\ auth.result = "AuthenticationError"
  /\ auth.jwt.kind = "refresh"
  /\ sessions[auth.jwt.userId].loggedOut
  /\ sessions[auth.jwt.userId].token = auth.jwt

\* C29: a resetPassword with a token that an earlier resetPassword succeeded
\* with fails, and a resetPassword that fails changes no user's password.
C29_ResetTokenSingleUse ==
  [][(AuthStep /\ auth'.op = "resetPassword") =>
       /\ auth'.token \in spent => auth'.result # "ok"
       /\ auth'.result # "ok" =>
            \A e \in Emails : users'.rows[e].password = users.rows[e].password]_vars
C29_Witness ==
  /\ auth.op = "resetPassword" /\ auth.result = "NotFoundError"
  /\ auth.token \in spent
  /\ \E e \in Emails : users.rows[e].present /\ users.rows[e].password = hash("pass-2")
====
